---------------------------- MODULE Spec2Model ----------------------------
(***************************************************************************)
(* A model of bsostech/go-besu: the privacy-group resolver                 *)
(* (privacy/privacy.go), the private transaction (types: PrivateTransaction,*)
(* newTransaction, hash, SignTx, withSignature, signatureValues) and the   *)
(* receipt mapping (MarshalPrivateReceipt).                                *)
(*                                                                         *)
(* Numbers wider than 31 bits never appear as TLA+ integers: a big.Int or  *)
(* a uint64 is its big-endian magnitude, a sequence of bytes; the 64-bit   *)
(* Go int of PublicKey.Hash is kept as two 16-bit halves while it is wider *)
(* than an int32.                                                          *)
(***************************************************************************)
EXTENDS Integers, Sequences, FiniteSets, TLC

VARIABLES
    \* --- PublicKey.Hash (SpecHash)
    key,            \* the receiver of Hash: a byte sequence
    hashOut,        \* what Hash returned, or NoResult
    \* --- FindRootPrivacyGroup / sort (SpecGroup)
    participants,   \* the caller's list of keys
    permuted,       \* the same keys in another order
    rootA,          \* the result of the call on participants, or NoResult
    rootB,          \* the result of the call on permuted, or NoResult
    \* --- MarshalPrivateReceipt (SpecReceipt)
    respMap,        \* the response map r: a function from the keys present
    receiptOut,     \* what MarshalPrivateReceipt did with it, or NoResult
    \* --- PrivateTransaction (SpecTx)
    heap,           \* the objects behind pointers and slices: heap[a] is the
                    \* magnitude of a big.Int or the bytes of an array
    txs,            \* the PrivateTransaction instances in memory, as txdata
    ret,            \* the last call: its arguments, the state it started
                    \* from and how it ended
    created,        \* created[i]: the fields of txs[i] when it was returned
    callerWrites    \* how often the caller has written to its own objects

hashVars  == <<key, hashOut>>
groupVars == <<participants, permuted, rootA, rootB>>
receiptVars == <<respMap, receiptOut>>
txVars == <<heap, txs, ret, created, callerWrites>>
vars == <<hashVars, groupVars, receiptVars, txVars>>

\* a result variable holds <<>> before the call and <<value>> after it
NoResult == <<>>

\* ------------------------------------------------------------------ bounds
MaxKeyLen == 7
MaxParticipants == 3
MaxTxs == 2
MaxCallerWrites == 1
MaxInstances == 3

\* ------------------------------------------------------------ byte helpers
Byte == 0..255
TwoTo16 == 2^16
TwoTo24 == 2^24

\* all sequences over S of length 0..n
SeqsUpTo(S, n) == UNION {[1..k -> S] : k \in 0..n}

RECURSIVE Concat(_)
Concat(ss) == IF ss = <<>> THEN <<>> ELSE Head(ss) \o Concat(Tail(ss))

\* --------------------------------------------------------- PublicKey.Hash
\* int32(v) << 24 : the low 8 bits of v become the top byte of an int32
Shl24(v) == LET w == v % 256 IN IF w >= 128 THEN (w - 256) * TwoTo24 ELSE w * TwoTo24
\* x >> 24 on an int32: arithmetic shift
Sar24(x) == x \div TwoTo24
\* int((int32(v)<<24)>>24)
SignExtNoExt(v) == v
SignExt(v) == Sar24(Shl24(v))

\* (31*result + se) & 0xffffffff, result a Go int holding an int32 value:
\* the masked value as <<high 16 bits, low 16 bits>>
MulAddMask32(result, se) ==
    LET hi == result \div TwoTo16
        lo == result % TwoTo16
        t  == 31 * lo + se
    IN  << (31 * hi + (t \div TwoTo16)) % TwoTo16, t % TwoTo16 >>

\* int32(x) of a masked value, widened to int again
Int32(w) == (IF w[1] >= 2^15 THEN w[1] - TwoTo16 ELSE w[1]) * TwoTo16 + w[2]

RECURSIVE HashFrom(_, _)
HashFrom(result, pub) ==
    \* result is a Go int: an integer at every iteration of the loop
    IF result \in Int /\ pub # <<>>
    THEN HashFrom(Int32(MulAddMask32(result, SignExt(Head(pub)))), Tail(pub))
    ELSE result

Hash(pub) == HashFrom(1, pub)

\* -------------------------------------------------- RLP (go-ethereum/rlp)
\* the minimal big-endian bytes of a small natural number (0 is empty)
RECURSIVE BytesOfNat(_)
BytesOfNat(n) == IF n = 0 THEN <<>> ELSE BytesOfNat(n \div 256) \o <<n % 256>>

\* the header of a string (offset 128) or a list (offset 192) of size bytes
RlpHeader(size, offset) ==
    IF size <= 55 THEN <<offset + size>>
    ELSE LET be == BytesOfNat(size) IN <<offset + 55 + Len(be)>> \o be

\* a byte string
RlpString(b) ==
    IF Len(b) = 1 /\ b[1] < 128 THEN b ELSE RlpHeader(Len(b), 128) \o b

\* a list whose items are already encoded
RlpList(items) == LET body == Concat(items) IN RlpHeader(Len(body), 192) \o body

\* a slice of byte strings ([]*PublicKey, [][]byte)
RlpListOfStrings(bs) == RlpList([i \in 1..Len(bs) |-> RlpString(bs[i])])

\* Keccak-256 is not computed: a digest is the tagged preimage, which makes the
\* digest function injective (no collisions), as the 256-bit hash is taken to be.
Keccak256(data) == <<"keccak256", data>>

\* rlpHash: the digest of the canonical encoding
rlpHash(encoded) == Keccak256(encoded)

\* base64.StdEncoding.EncodeToString of a digest, kept symbolic like the digest
Base64Std(h) == <<"base64", h>>

\* ------------------------------------------------------------ Privacy.sort
\* A Go map[int]*PublicKey is a sequence of <<key, value>> entries with distinct
\* keys (its iteration order is not fixed by the language; sort.Ints makes the
\* order of the keys irrelevant).
MapHas(m, k) == \E i \in 1..Len(m) : m[i][1] = k
MapGet(m, k) == m[CHOOSE i \in 1..Len(m) : m[i][1] = k][2]
\* hashMap[k] = v
MapPut(m, k, v) ==
    IF MapHas(m, k)
    THEN [i \in 1..Len(m) |-> IF m[i][1] = k THEN <<k, v>> ELSE m[i]]
    ELSE Append(m, <<k, v>>)
\* for k := range hashMap { keys = append(keys, k) }
MapKeys(m) == [i \in 1..Len(m) |-> m[i][1]]

\* the loop over participants, keeping the first key of each hash value
RECURSIVE BuildHashMapFirst(_, _)
BuildHashMapFirst(m, ps) ==
    IF ps = <<>> THEN m
    ELSE LET h == Hash(Head(ps))
         IN  BuildHashMapFirst(IF MapHas(m, h) THEN m ELSE MapPut(m, h, Head(ps)),
                               Tail(ps))

\* the loop over participants: later keys overwrite earlier ones
RECURSIVE BuildHashMap(_, _)
BuildHashMap(m, ps) ==
    IF ps = <<>> THEN m
    ELSE BuildHashMap(MapPut(m, Hash(Head(ps)), Head(ps)), Tail(ps))

\* sort.Ints: ascending order (insertion sort)
RECURSIVE InsertInt(_, _)
InsertInt(x, sorted) ==
    IF sorted = <<>> THEN <<x>>
    ELSE IF x <= Head(sorted) THEN <<x>> \o sorted
    ELSE <<Head(sorted)>> \o InsertInt(x, Tail(sorted))

RECURSIVE SortInts(_)
SortInts(keys) == IF keys = <<>> THEN <<>> ELSE InsertInt(Head(keys), SortInts(Tail(keys)))

\* a sort that leaves out sort.Ints: the keys stay in map-insertion order
sortNoSortInts(ps) ==
    LET hashMap == BuildHashMap(<<>>, ps)
        keys    == MapKeys(hashMap)
    IN  [i \in 1..Len(keys) |-> MapGet(hashMap, keys[i])]

sort(ps) ==
    LET hashMap == BuildHashMap(<<>>, ps)
        keys    == SortInts(MapKeys(hashMap))
    IN  [i \in 1..Len(keys) |-> MapGet(hashMap, keys[i])]

\* FindRootPrivacyGroup: the Group returned, with the sorted list it was
\* derived from kept beside it
FindRootPrivacyGroup(ps) ==
    LET sortParticipants == sort(ps)
        h == rlpHash(RlpListOfStrings(sortParticipants))
    IN  [sortParticipants |-> sortParticipants,
         group |-> [ID |-> Base64Std(h), Name |-> "", Description |-> "",
                    Type |-> "", Members |-> <<>>]]

\* ------------------------------------------------------------- input sets
\* bytes the keys of SpecHash are made of: 0, 0x7f/0x80 (the sign boundary)
\* and 0xff
HashBytes == {0, 127, 128, 255}

\* the three keys of the README's example (base64-decoded)
KeyFrom == <<3, 86, 149, 180, 204, 75, 9, 65, 230, 5, 81, 215, 161, 156, 243, 6,
             3, 219, 91, 252, 35, 229, 172, 67, 165, 111, 87, 242, 95, 117, 72, 106>>
KeyFor1 == <<42, 141, 155, 86, 160, 254, 156, 217, 77, 96, 190, 68, 19, 188, 183, 33,
             211, 167, 190, 39, 237, 142, 40, 179, 166, 52, 109, 248, 116, 238, 20, 27>>
KeyFor2 == <<147, 108, 215, 18, 41, 248, 34, 159, 234, 4, 105, 81, 144, 151, 163, 156,
             101, 157, 63, 215, 35, 144, 175, 131, 2, 242, 141, 91, 125, 75, 216, 47>>
\* two short keys with the same Hash: 31*(31*1 + 0) + 31 = 31*(31*1 + 1) + 0 = 992
KeyColl1 == <<0, 31>>
KeyColl2 == <<1, 0>>

ParticipantKeys == {KeyFrom, KeyFor1, KeyFor2, KeyColl1, KeyColl2}

RemoveAt(s, i) == SubSeq(s, 1, i - 1) \o SubSeq(s, i + 1, Len(s))

\* every ordering of the elements of s
RECURSIVE OrderingsOf(_)
OrderingsOf(s) ==
    IF s = <<>> THEN {<<>>}
    ELSE UNION {{<<s[i]>> \o r : r \in OrderingsOf(RemoveAt(s, i))} : i \in 1..Len(s)}

\* ------------------------------------------------------ SpecHash: Hash
HashIdle == key = <<>> /\ hashOut = NoResult
TxIdle ==
    heap = <<>> /\ txs = <<>> /\ ret = <<>> /\ created = <<>> /\ callerWrites = 0
ReceiptIdle == respMap = <<>> /\ receiptOut = NoResult
GroupIdle == participants = <<>> /\ permuted = <<>> /\ rootA = NoResult /\ rootB = NoResult

HashInit ==
    /\ key \in SeqsUpTo(HashBytes, MaxKeyLen)
    /\ hashOut = NoResult
    /\ GroupIdle
    /\ ReceiptIdle
    /\ TxIdle

CallHash ==
    /\ hashOut = NoResult
    /\ hashOut' = <<Hash(key)>>
    /\ UNCHANGED <<key, groupVars, receiptVars, txVars>>

HashNext == CallHash

SpecHash == HashInit /\ [][HashNext]_vars

\* ------------------------------------- SpecGroup: FindRootPrivacyGroup
GroupInit ==
    /\ participants \in SeqsUpTo(ParticipantKeys, MaxParticipants)
    /\ permuted \in OrderingsOf(participants)
    /\ rootA = NoResult
    /\ rootB = NoResult
    /\ HashIdle
    /\ ReceiptIdle
    /\ TxIdle

CallFindRoot ==
    /\ rootA = NoResult
    /\ rootA' = <<FindRootPrivacyGroup(participants)>>
    /\ UNCHANGED <<participants, permuted, rootB, hashVars, receiptVars, txVars>>

CallFindRootPermuted ==
    /\ rootB = NoResult
    /\ rootB' = <<FindRootPrivacyGroup(permuted)>>
    /\ UNCHANGED <<participants, permuted, rootA, hashVars, receiptVars, txVars>>

GroupNext == CallFindRoot \/ CallFindRootPermuted

SpecGroup == GroupInit /\ [][GroupNext]_vars

\* ------------------------------------------------ MarshalPrivateReceipt
\* A JSON value of the response map: a string, null, or an array of values.
JStr(text) == [t |-> "string", v |-> text]
JNull == [t |-> "null", v |-> ""]
JArr(items) == [t |-> "array", v |-> items]
JObj == [t |-> "object", v |-> ""]
\* what r[k] yields for a key that is not in the map: the nil interface
JNil == [t |-> "nil", v |-> ""]

IsString(x) == x.t = "string"
IsArray(x) == x.t = "array"

\* v, ok := r[k]
Lookup(r, k) == IF k \in DOMAIN r THEN r[k] ELSE JNil
\* a check that lets a missing logs through
MissingButLogs(r, k) == k # "logs" /\ k \notin DOMAIN r
\* if _, ok := r[k]; !ok
Missing(r, k) == k \notin DOMAIN r

\* the strings of the modelled responses and the bytes they decode to
HexBytes == [x01 |-> <<1>>, xaa56 |-> <<170, 86>>, x1f |-> <<31>>]
HexText == [x01 |-> "0x01", xaa56 |-> "0xaa56", x1f |-> "0x1f"]
Base64Bytes == [k1 |-> KeyColl1, k2 |-> KeyColl2]
Base64Text == [k1 |-> "AB8=", k2 |-> "AQA="]
BadHex == "0xzz"
BadBase64 == "!!"

\* hexutil.Decode: the bytes, or <<"error">>
HexutilDecode(text) ==
    IF \E n \in DOMAIN HexText : HexText[n] = text
    THEN <<"ok", HexBytes[CHOOSE n \in DOMAIN HexText : HexText[n] = text]>>
    ELSE <<"error", <<>>>>

\* common.FromHex: like Decode, but a malformed string gives no bytes
FromHex(text) == HexutilDecode(text)[2]

\* SetBytes of a fixed-size array (common.Hash, common.Address, types.Bloom):
\* cropped from the left, right-aligned
LeftPad(b, n) ==
    IF Len(b) >= n THEN SubSeq(b, Len(b) - n + 1, Len(b))
    ELSE [i \in 1..(n - Len(b)) |-> 0] \o b

HexToHash(text) == LeftPad(FromHex(text), 32)
HexToAddress(text) == LeftPad(FromHex(text), 20)
BytesToBloom(b) == LeftPad(b, 256)

\* privacy.ToPublicKey = base64.StdEncoding.DecodeString
ToPublicKey(text) ==
    IF \E n \in DOMAIN Base64Text : Base64Text[n] = text
    THEN <<"ok", Base64Bytes[CHOOSE n \in DOMAIN Base64Text : Base64Text[n] = text]>>
    ELSE <<"error", <<>>>>

\* the privateFor loop: entries that do not decode are skipped
RECURSIVE DecodeKeys(_)
DecodeKeys(items) ==
    IF items = <<>> THEN <<>>
    ELSE LET k == ToPublicKey(Head(items).v)
         IN  (IF k[1] = "ok" THEN <<k[2]>> ELSE <<>>) \o DecodeKeys(Tail(items))

\* the three ways a call ends
Returned(receipt) == [kind |-> "receipt", receipt |-> receipt, msg |-> ""]
Failed(msg) == [kind |-> "error", receipt |-> <<>>, msg |-> msg]
Panicked(msg) == [kind |-> "panic", receipt |-> <<>>, msg |-> msg]

NotFound ==
    [commitmentHash  |-> "commitmentHash not found",
     transactionHash |-> "transactionHash not found",
     privateFrom     |-> "privateFrom not found",
     privateFor      |-> "privateFor not found",
     logs            |-> "logs not found",
     logsBloom       |-> "logsBloom not found"]

\* a v.(string) or v.([]interface{}) on a value of another type
AssertionPanic == "interface conversion"

\* the optional fields, each with the zero value when absent
contractAddressOf(r) ==
    IF "contractAddress" \in DOMAIN r THEN HexToAddress(r["contractAddress"].v)
    ELSE LeftPad(<<>>, 20)
outputOf(r) == IF "output" \in DOMAIN r THEN HexutilDecode(r["output"].v)[2] ELSE <<>>
statusOf(r) == IF "status" \in DOMAIN r /\ r["status"].v = "0x1" THEN 1 ELSE 0
blockHashOf(r) ==
    IF "blockHash" \in DOMAIN r THEN HexToHash(r["blockHash"].v) ELSE LeftPad(<<>>, 32)
\* big.Int.SetString(v, 16) of the modelled strings, which are hexadecimal
\* digits without a prefix
SetString16(text) == CASE text = "1f" -> 31 [] text = "2" -> 2 [] OTHER -> 0
\* a *big.Int: <<>> is nil
blockNumberOf(r) ==
    IF "blockNumber" \in DOMAIN r THEN <<SetString16(r["blockNumber"].v)>> ELSE <<>>
transactionIndexOf(r) ==
    IF "transactionIndex" \in DOMAIN r THEN SetString16(r["transactionIndex"].v) ELSE 0

\* the steps of MarshalPrivateReceipt in the order of the code; each either
\* ends the call or goes on to the next
marshalFromBloom(r) ==
    IF Missing(r, "logsBloom") THEN Failed(NotFound.logsBloom)
    ELSE IF ~IsString(Lookup(r, "logsBloom")) THEN Panicked(AssertionPanic)
    ELSE LET dec == HexutilDecode(r["logsBloom"].v)
         IN  IF dec[1] # "ok" THEN Failed("failed to Decode")
             ELSE Returned(
                 [Status           |-> statusOf(r),
                  Bloom            |-> BytesToBloom(dec[2]),
                  Logs             |-> <<>>,
                  TxHash           |-> HexToHash(r["transactionHash"].v),
                  ContractAddress  |-> contractAddressOf(r),
                  BlockHash        |-> blockHashOf(r),
                  BlockNumber      |-> blockNumberOf(r),
                  TransactionIndex |-> transactionIndexOf(r),
                  PrivateFrom      |-> ToPublicKey(r["privateFrom"].v)[2],
                  PrivateFor       |-> DecodeKeys(r["privateFor"].v),
                  Restriction      |-> "restricted",
                  CommitmentHash   |-> HexToHash(r["commitmentHash"].v),
                  Output           |-> outputOf(r)])

marshalFromLogs(r) ==
    IF Missing(r, "logs") THEN Failed(NotFound.logs)
    ELSE IF ~IsArray(Lookup(r, "logs")) THEN Panicked(AssertionPanic)
    \* every entry is a JSON object: v.([]byte) panics on the first one
    ELSE IF Lookup(r, "logs").v # <<>> THEN Panicked(AssertionPanic)
    ELSE marshalFromBloom(r)

marshalFromPrivateFrom(r) ==
    IF Missing(r, "privateFrom") THEN Failed(NotFound.privateFrom)
    ELSE IF ~IsString(Lookup(r, "privateFrom")) THEN Panicked(AssertionPanic)
    ELSE IF ToPublicKey(r["privateFrom"].v)[1] # "ok" THEN Failed("illegal base64 data")
    ELSE IF Missing(r, "privateFor") THEN Failed(NotFound.privateFor)
    ELSE IF ~IsArray(Lookup(r, "privateFor")) THEN Panicked(AssertionPanic)
    ELSE IF "status" \in DOMAIN r /\ ~IsString(r["status"]) THEN Panicked(AssertionPanic)
    ELSE marshalFromLogs(r)

MarshalPrivateReceipt(r) ==
    IF "contractAddress" \in DOMAIN r /\ ~IsString(r["contractAddress"])
    THEN Panicked(AssertionPanic)
    ELSE IF "output" \in DOMAIN r /\ ~IsString(r["output"]) THEN Panicked(AssertionPanic)
    ELSE IF Missing(r, "commitmentHash") THEN Failed(NotFound.commitmentHash)
    ELSE IF ~IsString(Lookup(r, "commitmentHash")) THEN Panicked(AssertionPanic)
    ELSE IF Missing(r, "transactionHash") THEN Failed(NotFound.transactionHash)
    ELSE IF ~IsString(Lookup(r, "transactionHash")) THEN Panicked(AssertionPanic)
    ELSE marshalFromPrivateFrom(r)

\* ---------------------------------------------- SpecReceipt: the inputs
Absent == [t |-> "absent", v |-> ""]

\* what each key of a response may hold
ResponseFields ==
    [contractAddress  : {Absent, JStr(HexText.xaa56), JNull},
     output           : {Absent, JStr(HexText.x01)},
     commitmentHash   : {Absent, JStr(HexText.x01)},
     transactionHash  : {Absent, JStr(HexText.xaa56)},
     privateFrom      : {Absent, JStr(Base64Text.k1), JStr(BadBase64)},
     privateFor       : {Absent, JArr(<<>>), JArr(<<JStr(Base64Text.k2), JStr(BadBase64)>>)},
     status           : {Absent, JStr("0x1"), JStr("0x0")},
     logs             : {Absent, JArr(<<>>), JArr(<<JObj>>)},
     logsBloom        : {Absent, JStr(HexText.x1f), JStr(BadHex)},
     blockHash        : {Absent, JStr(HexText.x01)},
     blockNumber      : {Absent, JStr("1f")},
     transactionIndex : {Absent, JStr("2")}]

\* the map that holds the keys of f that are not Absent
MapOf(f) == [k \in {x \in DOMAIN f : f[x] # Absent} |-> f[k]]

ReceiptInit ==
    /\ respMap \in {MapOf(f) : f \in ResponseFields}
    /\ receiptOut = NoResult
    /\ HashIdle
    /\ GroupIdle
    /\ TxIdle

CallMarshalPrivateReceipt ==
    /\ receiptOut = NoResult
    /\ receiptOut' = <<MarshalPrivateReceipt(respMap)>>
    /\ UNCHANGED <<respMap, hashVars, groupVars, txVars>>

ReceiptNext == CallMarshalPrivateReceipt

SpecReceipt == ReceiptInit /\ [][ReceiptNext]_vars

\* ------------------------------------------------- big.Int and uint64
\* A big.Int (never negative here) is its magnitude: big-endian bytes without
\* leading zeros, <<>> for 0. A uint64 is eight bytes, big-endian.
RECURSIVE Normalize(_)
Normalize(b) == IF b # <<>> /\ Head(b) = 0 THEN Normalize(Tail(b)) ELSE b

\* new(big.Int).SetBytes(b)
SetBytes(b) == Normalize(b)

\* the sum of two byte strings of the same length: <<carry out, sum>>
RECURSIVE AddLoop(_, _, _, _, _)
AddLoop(a, b, i, carry, acc) ==
    IF carry \in Int /\ Len(acc) >= 0 /\ i >= 1
    THEN AddLoop(a, b, i - 1, (a[i] + b[i] + carry) \div 256,
                 <<(a[i] + b[i] + carry) % 256>> \o acc)
    ELSE <<carry, acc>>

\* x.Uint64(): the low 64 bits of the magnitude
Uint64(mag) == LeftPad(mag, 8)
\* a small number as a uint64
Uint64OfNat(n) == LeftPad(BytesOfNat(n), 8)
\* x + y on uint64: the carry out of 64 bits is dropped
AddU64(x, y) == AddLoop(x, y, 8, 0, <<>>)[2]
\* x * 2 on uint64
Mul2U64(x) == AddU64(x, x)
\* new(big.Int).SetUint64(x)
SetUint64(x) == Normalize(x)

\* ----------------------------------------------------------- the heap
\* A pointer is an index of heap, 0 is nil. A slice is the array it points
\* into and its length (every slice here starts at the array's first byte).
NilSlice == [arr |-> 0, len |-> 0]
SliceBytes(h, sl) == IF sl.arr = 0 THEN <<>> ELSE SubSeq(h[sl.arr], 1, sl.len)
\* *p of a *big.Int or *common.Address
Deref(h, ptr) == h[ptr]

\* common.CopyBytes: a new array holding the bytes of the slice
CopyBytes(h, sl) ==
    [heap |-> Append(h, SliceBytes(h, sl)), slice |-> [arr |-> Len(h) + 1, len |-> sl.len]]

\* ---------------------------------------------- PrivateTransaction
RestrictedText == <<114, 101, 115, 116, 114, 105, 99, 116, 101, 100>>  \* "restricted"

\* newTransaction that stores the caller's slice
newTransactionNoCopy(h, nonce, to, amount, gasLimit, gasPrice, data, privateFrom, privateFor) ==
    LET base == Len(h)
        d == [AccountNonce |-> nonce,
              Price        |-> base + 2,
              GasLimit     |-> gasLimit,
              Recipient    |-> to,
              Amount       |-> base + 1,
              Payload      |-> data,
              V            |-> base + 3,
              R            |-> base + 4,
              S            |-> base + 5,
              PrivateFrom  |-> privateFrom,
              PrivateFor   |-> privateFor,
              Restriction  |-> RestrictedText]
    IN  [heap |-> h \o << IF amount # 0 THEN Deref(h, amount) ELSE <<>>,
                          IF gasPrice # 0 THEN Deref(h, gasPrice) ELSE <<>>,
                          <<>>, <<>>, <<>> >>,
         tx   |-> d]

\* newTransaction: the heap after the call and the txdata of the instance
newTransaction(h, nonce, to, amount, gasLimit, gasPrice, data, privateFrom, privateFor) ==
    LET cp   == IF data.len > 0 THEN CopyBytes(h, data) ELSE [heap |-> h, slice |-> data]
        h1   == cp.heap
        base == Len(h1)
        \* Amount, Price, V, R, S: new(big.Int), in the order of the literal
        d == [AccountNonce |-> nonce,
              Price        |-> base + 2,
              GasLimit     |-> gasLimit,
              Recipient    |-> to,
              Amount       |-> base + 1,
              Payload      |-> cp.slice,
              V            |-> base + 3,
              R            |-> base + 4,
              S            |-> base + 5,
              PrivateFrom  |-> privateFrom,
              PrivateFor   |-> privateFor,
              Restriction  |-> RestrictedText]
    IN  \* d.Amount.Set(amount), d.Price.Set(gasPrice) when not nil
        [heap |-> h1 \o << IF amount # 0 THEN Deref(h1, amount) ELSE <<>>,
                           IF gasPrice # 0 THEN Deref(h1, gasPrice) ELSE <<>>,
                           <<>>, <<>>, <<>> >>,
         tx   |-> d]

\* rlp of the Go values of a txdata
RlpUint(n) == RlpString(BytesOfNat(n))
RlpBigInt(mag) == RlpString(mag)
\* a nil *common.Address is the empty string
RlpAddressPtr(h, ptr) == IF ptr = 0 THEN RlpString(<<>>) ELSE RlpString(Deref(h, ptr))
RlpSlices(h, sls) == RlpListOfStrings([i \in 1..Len(sls) |-> SliceBytes(h, sls[i])])

\* a digest that takes the instance's V in place of the chain id
hashWithV(h, tx, chainID) ==
    rlpHash(RlpList(<<
        RlpUint(tx.AccountNonce),
        RlpBigInt(Deref(h, tx.Price)),
        RlpUint(tx.GasLimit),
        RlpAddressPtr(h, tx.Recipient),
        RlpBigInt(Deref(h, tx.Amount)),
        RlpString(SliceBytes(h, tx.Payload)),
        RlpBigInt(Deref(h, tx.V)), RlpUint(0), RlpUint(0),
        RlpString(SliceBytes(h, tx.PrivateFrom)),
        RlpSlices(h, tx.PrivateFor),
        RlpString(tx.Restriction) >>))

\* hash(tx, chainID)
hash(h, tx, chainID) ==
    rlpHash(RlpList(<<
        RlpUint(tx.AccountNonce),
        RlpBigInt(Deref(h, tx.Price)),
        RlpUint(tx.GasLimit),
        RlpAddressPtr(h, tx.Recipient),
        RlpBigInt(Deref(h, tx.Amount)),
        RlpString(SliceBytes(h, tx.Payload)),
        RlpBigInt(chainID), RlpUint(0), RlpUint(0),
        RlpString(SliceBytes(h, tx.PrivateFrom)),
        RlpSlices(h, tx.PrivateFor),
        RlpString(tx.Restriction) >>))

\* rlp.EncodeToBytes of a txdata: a struct is the list of its fields
RlpTxdata(h, tx) ==
    RlpList(<<
        RlpUint(tx.AccountNonce),
        RlpBigInt(Deref(h, tx.Price)),
        RlpUint(tx.GasLimit),
        RlpAddressPtr(h, tx.Recipient),
        RlpBigInt(Deref(h, tx.Amount)),
        RlpString(SliceBytes(h, tx.Payload)),
        RlpBigInt(Deref(h, tx.V)),
        RlpBigInt(Deref(h, tx.R)),
        RlpBigInt(Deref(h, tx.S)),
        RlpString(SliceBytes(h, tx.PrivateFrom)),
        RlpSlices(h, tx.PrivateFor),
        RlpString(tx.Restriction) >>)

\* rlp.EncodeToBytes of a PrivateTransaction: the struct has the one field
\* Data, and no EncodeRLP method, so it is the list of that one field
EncodeToBytes(h, tx) == RlpList(<<RlpTxdata(h, tx)>>)

SignatureLength == 65

\* a length check that lets longer signatures through
signatureValuesAtLeast(sig) ==
    IF Len(sig) < SignatureLength
    THEN [panic |-> TRUE, r |-> <<>>, s |-> <<>>, v |-> <<>>]
    ELSE [panic |-> FALSE,
          r |-> SetBytes(SubSeq(sig, 1, 32)),
          s |-> SetBytes(SubSeq(sig, 33, 64)),
          v |-> SetBytes(<<(sig[65] + 27) % 256>>)]

\* signatureValues: panics on a wrong length; err is always nil
signatureValues(sig) ==
    IF Len(sig) # SignatureLength
    THEN [panic |-> TRUE, r |-> <<>>, s |-> <<>>, v |-> <<>>]
    ELSE [panic |-> FALSE,
          r |-> SetBytes(SubSeq(sig, 1, 32)),
          s |-> SetBytes(SubSeq(sig, 33, 64)),
          \* sig[64] + 27 is an addition of bytes
          v |-> SetBytes(<<(sig[65] + 27) % 256>>)]

\* v.Uint64() + chainID.Uint64()*2 + 8
newVOf(v, chainID) ==
    AddU64(AddU64(Uint64(v), Mul2U64(Uint64(chainID))), Uint64OfNat(8))

\* a withSignature that writes the signature into the big.Ints of tx
withSignatureInPlace(h, all, i, sig, chainID) ==
    LET sv == signatureValues(sig)
        tx == all[i]
    IN  IF sv.panic THEN [outcome |-> "panic", heap |-> h, txs |-> all, out |-> 0]
        ELSE [outcome |-> "ok",
              heap |-> [h EXCEPT ![tx.R] = sv.r, ![tx.S] = sv.s,
                                 ![tx.V] = SetUint64(newVOf(sv.v, chainID))],
              txs |-> Append(all, tx),
              out |-> Len(all) + 1]

\* withSignature(tx, sig, chainID), tx = all[i]: the copy gets three new
\* big.Ints and shares every other pointer and slice with tx
withSignature(h, all, i, sig, chainID) ==
    LET sv == signatureValues(sig)
        tx == all[i]
    IN  IF sv.panic THEN [outcome |-> "panic", heap |-> h, txs |-> all, out |-> 0]
        ELSE [outcome |-> "ok",
              heap |-> h \o <<sv.r, sv.s, SetUint64(newVOf(sv.v, chainID))>>,
              txs |-> Append(all, [tx EXCEPT !.R = Len(h) + 1, !.S = Len(h) + 2,
                                             !.V = Len(h) + 3]),
              out |-> Len(all) + 1]

\* ------------------------------------------- SpecTx: the caller's world
\* the caller's objects, which are on the heap before any call
AmountPtr == 1      \* amount *big.Int
PricePtr == 2       \* gasPrice *big.Int
DataArr == 3        \* the array behind data []byte
ToPtr == 4          \* to *common.Address
FromArr == 5        \* the array behind privateFrom
For1Arr == 6        \* the arrays behind the entries of privateFor
For2Arr == 7

\* 0xaa56458ec6440e480f38be8de3a1abca3a95b7ea, the README's contract address
ContractAddress ==
    <<170, 86, 69, 142, 198, 68, 14, 72, 15, 56, 190, 141, 227, 161, 171, 202, 58, 149, 183, 234>>

CallerHeap ==
    << <<1, 0, 0, 0, 0, 0, 0, 0, 0>>,   \* amount = 2^64
       <<3>>,                           \* gasPrice = 3
       <<1, 33>>,                       \* data: 0x01 0x21
       ContractAddress, KeyFrom, KeyFor1, KeyFor2 >>

\* the data arguments: nil, an empty slice of the caller's array, the array
CallerData == {NilSlice, [arr |-> DataArr, len |-> 0], [arr |-> DataArr, len |-> 2]}
CallerPrivateFrom == [arr |-> FromArr, len |-> 32]
CallerPrivateFor == << [arr |-> For1Arr, len |-> 32], [arr |-> For2Arr, len |-> 32] >>
CallerNonce == 7
CallerGasLimit == 3000000

\* chain ids: 2018 and 2^63
ChainIDs == { <<7, 226>>, <<128, 0, 0, 0, 0, 0, 0, 0>> }

R32A == [i \in 1..32 |-> 17]
R32Z == <<0, 0>> \o [i \in 1..30 |-> 171]
S32 == [i \in 1..32 |-> 34]
\* what crypto.Sign returns for a valid key: r, s and a recovery id of 0 or 1
SignerSigs == { R32A \o S32 \o <<0>>, R32Z \o S32 \o <<1>> }
\* what a caller inside the package may hand to withSignature: 65 bytes that
\* end in 229, 64 bytes, 66 bytes
DirectSigs == { R32A \o S32 \o <<229>>, R32A \o S32, R32A \o S32 \o <<0, 0>> }
\* and the chain id it hands over: 2018
DirectChainIDs == { <<7, 226>> }

\* the fields of an instance as values
View(h, tx) ==
    [nonce       |-> tx.AccountNonce,
     gasPrice    |-> Deref(h, tx.Price),
     gasLimit    |-> tx.GasLimit,
     recipient   |-> IF tx.Recipient = 0 THEN <<>> ELSE <<Deref(h, tx.Recipient)>>,
     value       |-> Deref(h, tx.Amount),
     payload     |-> SliceBytes(h, tx.Payload),
     v           |-> Deref(h, tx.V),
     r           |-> Deref(h, tx.R),
     s           |-> Deref(h, tx.S),
     privateFrom |-> SliceBytes(h, tx.PrivateFrom),
     privateFor  |-> [i \in 1..Len(tx.PrivateFor) |-> SliceBytes(h, tx.PrivateFor[i])],
     restriction |-> tx.Restriction]

Views(h, all) == [i \in 1..Len(all) |-> View(h, all[i])]

NoArgs == [to |-> 0, amount |-> 0, gasPrice |-> 0, data |-> NilSlice]

\* the record of a call
Call(op, in, out, outcome, chainID, prv, sig, digest, args, bytes) ==
    [op |-> op, in |-> in, out |-> out, outcome |-> outcome, chainID |-> chainID,
     prv |-> prv, sig |-> sig, digest |-> digest, args |-> args, bytes |-> bytes,
     before |-> Views(heap, txs)]

NoCall == [op |-> "none", in |-> 0, out |-> 0, outcome |-> "", chainID |-> <<>>,
           prv |-> "", sig |-> <<>>, digest |-> <<>>, args |-> NoArgs, bytes |-> <<>>,
           before |-> <<>>]

TxInit ==
    /\ heap = CallerHeap
    /\ txs = <<>>
    /\ ret = NoCall
    /\ created = <<>>
    /\ callerWrites = 0
    /\ HashIdle
    /\ GroupIdle
    /\ ReceiptIdle

others == <<hashVars, groupVars, receiptVars>>

\* a call of newTransaction with recipient to (0 is nil)
Construct(op, to) ==
    /\ Len(txs) < MaxTxs
    /\ \E amount \in {0, AmountPtr}, data \in CallerData :
        \* a value with a nil gasPrice, or a gasPrice with a nil value
        LET gasPrice == IF amount = 0 THEN PricePtr ELSE 0
            res == newTransaction(heap, CallerNonce, to, amount, CallerGasLimit, gasPrice,
                                  data, CallerPrivateFrom, CallerPrivateFor)
        IN  /\ heap' = res.heap
            /\ txs' = Append(txs, res.tx)
            /\ created' = Append(created, View(res.heap, res.tx))
            /\ ret' = Call(op, 0, Len(txs) + 1, "ok", <<>>, "", <<>>, <<>>,
                           [to |-> to, amount |-> amount, gasPrice |-> gasPrice,
                            data |-> data], <<>>)
    /\ UNCHANGED <<callerWrites, others>>

\* NewContractCreation: newTransaction with a nil recipient
NewContractCreation == Construct("NewContractCreation", 0)

\* newTransaction called with a recipient
CallNewTransaction == Construct("newTransaction", ToPtr)

\* created, with the fields of the instance a call returned
CreatedAfter(res) ==
    IF res.outcome = "ok" THEN Append(created, View(res.heap, res.txs[res.out]))
    ELSE created

\* tx.SignTx(chainID, prv), tx = txs[i]
SignTx ==
    /\ Len(txs) < MaxInstances
    /\ \E i \in 1..Len(txs), chainID \in ChainIDs, prv \in {"valid", "invalid"} :
        LET h == hash(heap, txs[i], chainID)
        IN  IF prv = "invalid"
            THEN \* crypto.Sign fails: return nil, err
                 /\ ret' = Call("SignTx", i, 0, "error", chainID, prv, <<>>, h, NoArgs, <<>>)
                 /\ UNCHANGED <<heap, txs, created>>
            ELSE \E sig \in SignerSigs :
                 LET res == withSignature(heap, txs, i, sig, chainID)
                 IN  /\ heap' = res.heap
                     /\ txs' = res.txs
                     /\ created' = CreatedAfter(res)
                     /\ ret' = Call("SignTx", i, res.out, res.outcome, chainID, prv, sig, h,
                                    NoArgs, <<>>)
    /\ UNCHANGED <<callerWrites, others>>

\* withSignature(tx, sig, chainID) called with a signature of any length
CallWithSignature ==
    /\ Len(txs) < MaxInstances
    /\ \E i \in 1..Len(txs), chainID \in DirectChainIDs, sig \in DirectSigs :
        LET res == withSignature(heap, txs, i, sig, chainID)
        IN  /\ heap' = res.heap
            /\ txs' = res.txs
            /\ created' = CreatedAfter(res)
            /\ ret' = Call("withSignature", i, res.out, res.outcome, chainID, "", sig, <<>>,
                           NoArgs, <<>>)
    /\ UNCHANGED <<callerWrites, others>>

\* rlp.EncodeToBytes(tx), tx = txs[i], as in the README
CallEncodeToBytes ==
    /\ \E i \in 1..Len(txs) :
        ret' = Call("EncodeToBytes", i, 0, "ok", <<>>, "", <<>>, <<>>, NoArgs,
                    EncodeToBytes(heap, txs[i]))
    /\ UNCHANGED <<heap, txs, created, callerWrites, others>>

\* the caller changes a byte of its data array, or its amount or gasPrice
CallerWrites ==
    /\ callerWrites < MaxCallerWrites
    /\ \/ \E j \in 1..Len(heap[DataArr]) : heap' = [heap EXCEPT ![DataArr][j] = 238]
       \/ heap' = [heap EXCEPT ![AmountPtr] = <<9>>]
       \/ heap' = [heap EXCEPT ![PricePtr] = <<9>>]
    /\ callerWrites' = callerWrites + 1
    /\ ret' = Call("callerWrites", 0, 0, "ok", <<>>, "", <<>>, <<>>, NoArgs, <<>>)
    /\ UNCHANGED <<txs, created, others>>

\* SpecTx: the caller constructs instances and writes to its own objects
TxNext ==
    \/ NewContractCreation
    \/ CallNewTransaction
    \/ CallerWrites

SpecTx == TxInit /\ [][TxNext]_vars

\* SpecSign: an instance that newTransaction returned is signed, signed again
\* and encoded
SignInit ==
    /\ \E to \in {0, ToPtr}, amount \in {0, AmountPtr}, data \in CallerData :
        \* a value with a nil gasPrice, or a gasPrice with a nil value
        LET gasPrice == IF amount = 0 THEN PricePtr ELSE 0
            res == newTransaction(CallerHeap, CallerNonce, to, amount, CallerGasLimit,
                                  gasPrice, data, CallerPrivateFrom, CallerPrivateFor)
        IN  /\ heap = res.heap
            /\ txs = <<res.tx>>
            /\ created = <<View(res.heap, res.tx)>>
    /\ ret = NoCall
    /\ callerWrites = 0
    /\ HashIdle
    /\ GroupIdle
    /\ ReceiptIdle

SignNext ==
    \/ SignTx
    \/ CallWithSignature
    \/ CallEncodeToBytes

SpecSign == SignInit /\ [][SignNext]_vars

\* ------------------------------------------------ claims about Hash (C9)
\* A 32-bit two's-complement machine: the accumulator is four bytes, least
\* significant first; the byte is sign-extended to 32 bits and every carry out
\* of the top byte is dropped.
RefStep(acc, b) ==
    LET ext == IF b >= 128 THEN 255 ELSE 0
        t1  == 31 * acc[1] + b
        t2  == 31 * acc[2] + ext + (t1 \div 256)
        t3  == 31 * acc[3] + ext + (t2 \div 256)
        t4  == 31 * acc[4] + ext + (t3 \div 256)
    IN  <<t1 % 256, t2 % 256, t3 % 256, t4 % 256>>

RECURSIVE RefFold(_, _)
RefFold(acc, pub) ==
    IF Len(acc) = 4 /\ pub # <<>> THEN RefFold(RefStep(acc, Head(pub)), Tail(pub)) ELSE acc

\* the four bytes read as a signed 32-bit number
RefSigned(acc) ==
    (IF acc[4] >= 128 THEN acc[4] - 256 ELSE acc[4]) * TwoTo24
        + acc[3] * TwoTo16 + acc[2] * 256 + acc[1]

\* C9: Hash returns the signed 32-bit value of the fold
\* acc = (31*acc + signExtend8to32(byte)) mod 2^32 from acc = 1, as a 32-bit
\* two's-complement machine computes it, and the value lies in
\* [-2^31, 2^31 - 1], for every key.
C9_HashIsInt32Fold ==
    hashOut # NoResult =>
        /\ hashOut[1] = RefSigned(RefFold(<<1, 0, 0, 0>>, key))
        /\ hashOut[1] >= -2147483647 - 1
        /\ hashOut[1] <= 2147483647

\* a key long enough to overflow 32 bits whose last byte is negative as a
\* signed byte has been hashed
C9_Witness ==
    /\ hashOut # NoResult
    /\ Len(key) = 7
    /\ \A i \in 1..6 : key[i] = 127
    /\ key[7] >= 128

\* ------------------------------------------------ claims about sort (C10)
\* the positions of the input that hold the last key of their hash value
\* the Hash of every key of a list
RECURSIVE HashesOf(_)
HashesOf(ps) == IF ps = <<>> THEN <<>> ELSE <<Hash(Head(ps))>> \o HashesOf(Tail(ps))

\* the positions whose Hash value does not occur later in the list
LastOfHash(hs) ==
    {i \in 1..Len(hs) : \A j \in (i + 1)..Len(hs) : hs[j] # hs[i]}

SortContract(in, out) ==
    LET hin  == HashesOf(in)
        hout == HashesOf(out)
        last == LastOfHash(hin)
    IN  /\ \A j \in 1..(Len(out) - 1) : hout[j] < hout[j + 1]
        /\ Len(out) = Cardinality(last)
        /\ \A j \in 1..Len(out) : \E i \in last : out[j] = in[i]

\* C10: sort returns keys of the input in strictly ascending order of Hash,
\* one key per distinct Hash value of the input, and of the input keys that
\* share a Hash value the one that occurs last in the input.
C10_SortKeepsLastPerHash ==
    /\ rootA # NoResult => SortContract(participants, rootA[1].sortParticipants)
    /\ rootB # NoResult => SortContract(permuted, rootB[1].sortParticipants)

Collides(ps) ==
    \E i, j \in 1..Len(ps) : ps[i] # ps[j] /\ Hash(ps[i]) = Hash(ps[j])

\* a list with two different keys of the same Hash has been sorted, and the
\* output is shorter than the input
C10_Witness ==
    /\ rootA # NoResult
    /\ Collides(participants)
    /\ Len(rootA[1].sortParticipants) < Len(participants)
    /\ Len(rootA[1].sortParticipants) >= 2

\* ------------------------------- claims about FindRootPrivacyGroup (C1)
SameRoot ==
    /\ rootA[1].sortParticipants = rootB[1].sortParticipants
    /\ rootA[1].group.ID = rootB[1].group.ID

\* C1 as stated: for every non-empty list and every permutation of it, sort
\* gives the same ordered key list and FindRootPrivacyGroup the same group ID.
C1_OrderIndependent ==
    (rootA # NoResult /\ rootB # NoResult /\ participants # <<>>) => SameRoot

\* C1 as amended: for every non-empty list in which no two different keys have
\* the same Hash value, and every permutation of it, sort gives the same
\* ordered key list and FindRootPrivacyGroup the same group ID.
C1_OrderIndependentNoCollision ==
    (rootA # NoResult /\ rootB # NoResult /\ participants # <<>>
        /\ ~Collides(participants)) => SameRoot

\* three different keys without a collision were resolved in two different
\* orders
C1_Witness ==
    /\ rootA # NoResult
    /\ rootB # NoResult
    /\ Len(participants) = 3
    /\ permuted # participants
    /\ ~Collides(participants)
    /\ \A i, j \in 1..3 : i # j => participants[i] # participants[j]

\* ------------------------------- claims about MarshalPrivateReceipt (C8)
\* the required fields in the order the code checks them
RequiredOrder ==
    <<"commitmentHash", "transactionHash", "privateFrom", "privateFor", "logs", "logsBloom">>

AbsentRequired(r) == {i \in 1..Len(RequiredOrder) : RequiredOrder[i] \notin DOMAIN r}
FirstAbsent(r) == CHOOSE i \in AbsentRequired(r) : \A j \in AbsentRequired(r) : i <= j

\* no step before the check of the i-th required field ends the call: the
\* optional contractAddress, when present, is a string; privateFrom, when it
\* is checked earlier, is valid base64; logs, when checked earlier, is empty
ReachesCheck(r, i) ==
    /\ "contractAddress" \in DOMAIN r => r["contractAddress"].t = "string"
    /\ i > 3 => \E n \in DOMAIN Base64Text : Base64Text[n] = r["privateFrom"].v
    /\ i > 5 => r["logs"].v = <<>>

\* C8 as stated: for every response map and every required field absent from
\* it, MarshalPrivateReceipt returns an error naming that field.
C8_ErrorNamesEveryAbsentField ==
    receiptOut # NoResult =>
        \A i \in AbsentRequired(respMap) :
            /\ receiptOut[1].kind = "error"
            /\ receiptOut[1].msg = NotFound[RequiredOrder[i]]

\* C8 as amended: for every response map in which a required field is absent
\* no receipt is returned; the call fails with the error naming the first
\* absent required field (in the order commitmentHash, transactionHash,
\* privateFrom, privateFor, logs, logsBloom) unless an earlier step has ended
\* it (a contractAddress that is not a string or a non-empty logs list panics,
\* a privateFrom that is not base64 returns the decoder's error); and a
\* "not found" error never names a field other than the first absent one.
C8_NoReceiptFirstAbsentNamed ==
    (receiptOut # NoResult /\ AbsentRequired(respMap) # {}) =>
        LET first == FirstAbsent(respMap)
            out   == receiptOut[1]
        IN  /\ out.kind # "receipt"
            /\ ReachesCheck(respMap, first) =>
                   (out.kind = "error" /\ out.msg = NotFound[RequiredOrder[first]])
            /\ (out.kind = "error" /\ \E k \in DOMAIN NotFound : out.msg = NotFound[k])
                   => out.msg = NotFound[RequiredOrder[first]]

\* a map that lacks only logs was mapped, and the error names logs
C8_Witness ==
    /\ receiptOut # NoResult
    /\ AbsentRequired(respMap) = {5}
    /\ receiptOut[1].kind = "error"
    /\ receiptOut[1].msg = "logs not found"

\* ------------------------------------------ reading an encoding back
\* rlp.DecodeBytes(b, &[]interface{}): the items of an encoded list
RECURSIVE NatOfBytes(_)
NatOfBytes(b) ==
    IF b = <<>> THEN 0 ELSE NatOfBytes(SubSeq(b, 1, Len(b) - 1)) * 256 + b[Len(b)]

\* the length of the header of the item that starts at b[p]
RlpHeadLen(b, p) ==
    IF b[p] < 128 THEN 0
    ELSE IF b[p] <= 183 THEN 1
    ELSE IF b[p] <= 191 THEN 1 + (b[p] - 183)
    ELSE IF b[p] <= 247 THEN 1
    ELSE 1 + (b[p] - 247)

\* the length of its content
RlpBodyLen(b, p) ==
    IF b[p] < 128 THEN 1
    ELSE IF b[p] <= 183 THEN b[p] - 128
    ELSE IF b[p] <= 191 THEN NatOfBytes(SubSeq(b, p + 1, p + (b[p] - 183)))
    ELSE IF b[p] <= 247 THEN b[p] - 192
    ELSE NatOfBytes(SubSeq(b, p + 1, p + (b[p] - 247)))

RlpItemLen(b, p) == RlpHeadLen(b, p) + RlpBodyLen(b, p)

RECURSIVE RlpSplit(_, _, _)
RlpSplit(b, p, acc) ==
    IF Len(acc) >= 0 /\ p <= Len(b)
    THEN RlpSplit(b, p + RlpItemLen(b, p), Append(acc, SubSeq(b, p, p + RlpItemLen(b, p) - 1)))
    ELSE acc

\* enc is one list and nothing else
RlpIsList(enc) == enc # <<>> /\ enc[1] >= 192 /\ RlpItemLen(enc, 1) = Len(enc)

\* the encoded top-level elements of the list enc
RlpItems(enc) == RlpSplit(SubSeq(enc, RlpHeadLen(enc, 1) + 1, Len(enc)), 1, <<>>)

\* the recipient, or the empty marker
RlpRecipient(view) ==
    IF view.recipient = <<>> THEN RlpString(<<>>) ELSE RlpString(view.recipient[1])

SignOps == {"SignTx", "withSignature"}
Constructors == {"NewContractCreation", "newTransaction"}

\* the instance a call was made on, as it was before the call
InputOf(call) == call.before[call.in]

\* an instance that carries a signature
IsSigned(view) == view.v # <<>> \/ view.r # <<>> \/ view.s # <<>>

\* no instance that existed before the call has changed
FrameOf(call) ==
    /\ Len(txs) >= Len(call.before)
    /\ \A i \in 1..Len(call.before) : View(heap, txs[i]) = call.before[i]

\* ------------------------------------------- claims about the stored v (C2)
\* the sum of two natural numbers of any size, as big-endian bytes
BigAdd(a, b) ==
    LET n == (IF Len(a) > Len(b) THEN Len(a) ELSE Len(b)) + 1
    IN  Normalize(AddLoop(LeftPad(a, n), LeftPad(b, n), n, 0, <<>>)[2])

\* recoveryByte + chainId*2 + 8 with recoveryByte = last byte + 27, as numbers
FoldedV(sig, chainID) ==
    BigAdd(BigAdd(BytesOfNat(sig[SignatureLength] + 27), BigAdd(chainID, chainID)), <<8>>)

\* C2: for every chain id and every 65-byte raw signature, the v stored in the
\* transaction returned by SignTx/withSignature equals recoveryByte + chainId*2
\* + 8, where recoveryByte is the signature's last byte plus 27, and r and s
\* are the big-endian integers of signature bytes 0..31 and 32..63.
C2_StoredVIsFoldOfChainId ==
    (ret.op \in SignOps /\ ret.outcome = "ok" /\ Len(ret.sig) = SignatureLength) =>
        LET new == View(heap, txs[ret.out])
        IN  /\ new.v = FoldedV(ret.sig, ret.chainID)
            /\ new.r = Normalize(SubSeq(ret.sig, 1, 32))
            /\ new.s = Normalize(SubSeq(ret.sig, 33, 64))

\* ------------------------------------ claims about signing's frame (C3)
\* C3: signing never mutates its input. Every instance keeps, in every state,
\* the field values it was returned with (v, r and s included), whatever
\* SignTx/withSignature calls follow, re-signing a signed instance included;
\* a successful call returns a new instance whose nonce, gasPrice, gasLimit,
\* recipient, value, payload, privateFrom, privateFor and restriction equal
\* the input's and whose v, r, s come from the new signature and the chain id
\* only.
C3_SigningNeverMutates ==
    /\ Len(created) = Len(txs)
    /\ \A i \in 1..Len(txs) : View(heap, txs[i]) = created[i]
    /\ ret.op \in SignOps =>
        /\ FrameOf(ret)
        /\ ret.outcome # "ok" => Len(txs) = Len(ret.before)
        /\ ret.outcome = "ok" =>
            LET new == View(heap, txs[ret.out])
                old == InputOf(ret)
            IN  /\ ret.out = Len(ret.before) + 1
                /\ Len(txs) = ret.out
                /\ new.nonce = old.nonce
                /\ new.gasPrice = old.gasPrice
                /\ new.gasLimit = old.gasLimit
                /\ new.recipient = old.recipient
                /\ new.value = old.value
                /\ new.payload = old.payload
                /\ new.privateFrom = old.privateFrom
                /\ new.privateFor = old.privateFor
                /\ new.restriction = old.restriction
                /\ new.r = SetBytes(SubSeq(ret.sig, 1, 32))
                /\ new.s = SetBytes(SubSeq(ret.sig, 33, 64))
                /\ new.v = SetUint64(newVOf(<<(ret.sig[SignatureLength] + 27) % 256>>,
                                            ret.chainID))

\* a signed instance was signed again, with another signature
C3_Witness ==
    /\ ret.op = "SignTx"
    /\ ret.outcome = "ok"
    /\ InputOf(ret).r # <<>>
    /\ View(heap, txs[ret.out]).r # InputOf(ret).r
    /\ View(heap, txs[ret.in]) = InputOf(ret)

\* ------------------------------------- claims about the encoding (C4)
\* the 12 fields of an instance in wire order, each encoded
WireSequence(view) ==
    << RlpString(BytesOfNat(view.nonce)),
       RlpString(view.gasPrice),
       RlpString(BytesOfNat(view.gasLimit)),
       RlpRecipient(view),
       RlpString(view.value),
       RlpString(view.payload),
       RlpString(view.v),
       RlpString(view.r),
       RlpString(view.s),
       RlpString(view.privateFrom),
       RlpListOfStrings(view.privateFor),
       RlpString(view.restriction) >>

\* C4: the encoding of a signed PrivateTransaction is a list of exactly 12
\* top-level elements in the order nonce, gasPrice, gasLimit,
\* recipient-or-empty, value, payload, v, r, s, privateFrom, privateFor,
\* restriction: decoding what rlp.EncodeToBytes returned for a signed instance
\* yields exactly these 12 top-level fields.
C4_TwelveTopLevelElements ==
    (ret.op = "EncodeToBytes" /\ IsSigned(InputOf(ret))) =>
        /\ RlpIsList(ret.bytes)
        /\ Len(RlpItems(ret.bytes)) = 12
        /\ RlpItems(ret.bytes) = WireSequence(InputOf(ret))

\* what the encoding is: a list of one element, the list of the 12 fields
EncodingWrapsTheFields ==
    ret.op = "EncodeToBytes" =>
        /\ RlpIsList(ret.bytes)
        /\ Len(RlpItems(ret.bytes)) = 1
        /\ RlpIsList(RlpItems(ret.bytes)[1])
        /\ RlpItems(RlpItems(ret.bytes)[1]) = WireSequence(InputOf(ret))

\* --------------------------------- claims about the signing digest (C5)
\* the 12 items of the digest's preimage in order, each encoded
DigestSequence(view, chainID) ==
    << RlpString(BytesOfNat(view.nonce)),
       RlpString(view.gasPrice),
       RlpString(BytesOfNat(view.gasLimit)),
       RlpRecipient(view),
       RlpString(view.value),
       RlpString(view.payload),
       RlpString(chainID),
       RlpString(BytesOfNat(0)),
       RlpString(BytesOfNat(0)),
       RlpString(view.privateFrom),
       RlpListOfStrings(view.privateFor),
       RlpString(view.restriction) >>

\* C5: the signing digest of a transaction for a chain id is the digest of
\* the 12-item sequence nonce, gasPrice, gasLimit, recipient (or empty
\* marker), value, payload, chainId, 0, 0, privateFrom, privateFor as a nested
\* list, restriction, in that order; it does not depend on v, r, s: the
\* instance a signing call returns has, for every chain id, the digest of the
\* instance it was made on.
C5_DigestOfTwelveItems ==
    /\ ret.op = "SignTx" =>
        /\ ret.digest[1] = "keccak256"
        /\ RlpIsList(ret.digest[2])
        /\ Len(RlpItems(ret.digest[2])) = 12
        /\ RlpItems(ret.digest[2]) = DigestSequence(InputOf(ret), ret.chainID)
        /\ ret.digest = hash(heap, txs[ret.in], ret.chainID)
    /\ (ret.op \in SignOps /\ ret.outcome = "ok") =>
        \A c \in ChainIDs : hash(heap, txs[ret.out], c) = hash(heap, txs[ret.in], c)

\* a signed instance was signed: the digest is that of the unsigned original
C5_Witness ==
    /\ ret.op = "SignTx"
    /\ ret.outcome = "ok"
    /\ ret.in > 1
    /\ IsSigned(InputOf(ret))
    /\ ~IsSigned(View(heap, txs[1]))
    /\ ret.digest = hash(heap, txs[1], ret.chainID)

\* --------------------------------- claims about signing's failures (C6)
\* a signing call that returned no transaction
FailedSign == ret.op \in SignOps /\ ret.outcome # "ok"

\* C6: every failure of sign is reported to the caller as an error result
\* with no transaction returned, for an invalid key as for a raw signature
\* that is not exactly 65 bytes, and the input transaction is unchanged.
C6_EveryFailureIsAnErrorResult ==
    /\ FailedSign => (ret.outcome = "error" /\ ret.out = 0 /\ FrameOf(ret))
    /\ (ret.op \in SignOps /\ ret.prv # "invalid" /\ Len(ret.sig) # SignatureLength)
           => ret.outcome = "error"

\* C6 as amended: SignTx with a key that crypto.Sign rejects returns the
\* error and no transaction; a raw signature that is not exactly 65 bytes
\* makes withSignature panic, so that nothing is returned, neither a
\* transaction nor an error; a signature of 65 bytes never fails; an error
\* result comes from the key only; in every failure all instances, the input
\* included, are unchanged and no instance is added.
C6_KeyErrorsReturnedLengthPanics ==
    ret.op \in SignOps =>
        /\ ret.prv = "invalid" => (ret.op = "SignTx" /\ ret.outcome = "error")
        /\ (ret.prv # "invalid" /\ Len(ret.sig) # SignatureLength) => ret.outcome = "panic"
        /\ (ret.prv # "invalid" /\ Len(ret.sig) = SignatureLength) => ret.outcome = "ok"
        /\ ret.outcome = "error" => (ret.op = "SignTx" /\ ret.prv = "invalid")
        /\ ret.outcome # "ok" =>
            /\ ret.out = 0
            /\ Len(txs) = Len(ret.before)
            /\ FrameOf(ret)

\* withSignature was handed a signature of 66 bytes on a signed instance
C6_Witness ==
    /\ ret.op = "withSignature"
    /\ Len(ret.sig) = SignatureLength + 1
    /\ ret.outcome = "panic"
    /\ IsSigned(InputOf(ret))
    /\ View(heap, txs[ret.in]) = InputOf(ret)

\* ------------------------------------ claims about construction (C7)
\* the number behind a *big.Int argument, zero when nil
NumberOrZero(h, ptr) == IF ptr = 0 THEN <<>> ELSE Deref(h, ptr)

\* C7: a constructor returns an unsigned instance whose nonce, recipient,
\* gasLimit, privateFrom and privateFor are the supplied ones, whose value and
\* gasPrice are the supplied numbers or zero when nil, whose restriction is
\* "restricted", whose v, r, s are zero and whose payload is the supplied
\* bytes; and every instance keeps the field values it was constructed with
\* when the caller later writes to its buffer or to its value/gasPrice
\* numbers, for every payload, the empty one included.
C7_ConstructedAsSuppliedAndCopied ==
    /\ Len(created) = Len(txs)
    /\ \A i \in 1..Len(txs) : View(heap, txs[i]) = created[i]
    /\ ret.op \in Constructors =>
        LET new == View(heap, txs[ret.out])
            a   == ret.args
        IN  /\ ret.out = Len(txs)
            /\ FrameOf(ret)
            /\ ret.op = "NewContractCreation" => new.recipient = <<>>
            /\ new.nonce = CallerNonce
            /\ new.recipient = (IF a.to = 0 THEN <<>> ELSE <<Deref(heap, a.to)>>)
            /\ new.gasLimit = CallerGasLimit
            /\ new.privateFrom = SliceBytes(heap, CallerPrivateFrom)
            /\ new.privateFor = [i \in 1..Len(CallerPrivateFor) |->
                                    SliceBytes(heap, CallerPrivateFor[i])]
            /\ new.value = NumberOrZero(heap, a.amount)
            /\ new.gasPrice = NumberOrZero(heap, a.gasPrice)
            /\ new.payload = SliceBytes(heap, a.data)
            /\ new.restriction = RestrictedText
            /\ new.v = <<>>
            /\ new.r = <<>>
            /\ new.s = <<>>

\* the caller wrote to its buffer after it had constructed an instance from
\* the whole buffer and another from an empty slice of it
C7_Witness ==
    /\ ret.op = "callerWrites"
    /\ heap[DataArr] # CallerHeap[DataArr]
    /\ \E i \in 1..Len(txs) : created[i].payload = CallerHeap[DataArr]
    /\ \E i \in 1..Len(txs) : txs[i].Payload.arr = DataArr /\ created[i].payload = <<>>

====
